---------------------------- MODULE Spec2Model ----------------------------
(***************************************************************************)
(* A model of lib/orgmode.js: the outline document model and query engine  *)
(* (classes OutlinesArrayList, OutlineNode and Orgmode).                    *)
(*                                                                         *)
(* Objects are modelled by identity: an OutlineNode is an index into       *)
(* `heap` (the wrappers constructed so far, in construction order), an AST *)
(* heading-entry is its 0-based position in _ast.outlines.  JavaScript     *)
(* arrays are 0-based, TLA+ sequences 1-based: element i of a JavaScript   *)
(* array a is a[i + 1] here.                                               *)
(***************************************************************************)
EXTENDS Integers, Sequences, FiniteSets, TLC

\* Bounds of the model.
MaxOutlines == 3    \* heading-entries in the AST
MaxLevel    == 3    \* heading levels are 1..MaxLevel
MaxOptions  == 2    \* document options in the AST
MaxNameLen  == 1    \* letters of a generated option name

VARIABLES
  _ast,       \* the parsed AST: [outlines, options]            (Orgmode._ast)
  astNode,    \* astNode[i + 1]: the `_node` decoration of _ast.outlines[i]; 0 = not defined
  heap,       \* the OutlineNode objects constructed so far
  _outlines,  \* the Document's collection, a sequence of node ids (OutlinesArrayList._outlines)
  built,      \* FALSE until the constructor has run
  call,       \* the last call made by the client
  ret,        \* what that call returned (or threw)
  pcall       \* the call made immediately before it, with its result, if that was next()

vars == <<_ast, astNode, heap, _outlines, built, call, ret, pcall>>

---------------------------------------------------------------------------
(* Values returned to the client.                                          *)

EmptyMap == [k \in {} |-> ""]

\* One shape for every result: tag says which of the other fields is meant.
Result(tag, id, list, map, elems) ==
  [tag |-> tag, id |-> id, list |-> list, map |-> map, elems |-> elems]

Node(id)      == Result("node", id, <<>>, EmptyMap, <<>>)        \* an OutlineNode
Null          == Result("null", 0, <<>>, EmptyMap, <<>>)         \* null
Undefined     == Result("undefined", 0, <<>>, EmptyMap, <<>>)    \* undefined
TypeError     == Result("TypeError", 0, <<>>, EmptyMap, <<>>)    \* a thrown TypeError
Number(n)     == Result("number", n, <<>>, EmptyMap, <<>>)
Collection(l) == Result("collection", 0, l, EmptyMap, <<>>)      \* an array / OutlinesArrayList of nodes
Object(m)     == Result("object", 0, <<>>, m, <<>>)              \* a plain object used as a map
Elements(e)   == Result("elements", 0, <<>>, EmptyMap, e)        \* an array of section elements

\* A call: operation, receiver kind, receiver node (0: the Document), arguments.
Call(op, on, self, arg, sarg) ==
  [op |-> op, on |-> on, self |-> self, arg |-> arg, sarg |-> sarg]

NoCall == [op |-> "none", self |-> 0, tag |-> "none", id |-> 0]

---------------------------------------------------------------------------
(* The AST handed over by the parser (./parser, not part of this model).   *)

Titles == <<"A", "B">>

\* The heading-entries the model draws documents from: one per level.
Entry(l) ==
  [heading |-> [title |-> Titles[(l % 2) + 1],
                level |-> l,
                tags  |-> IF l = 1 THEN <<>> ELSE IF l = 2 THEN <<"x">> ELSE <<"x", "y">>],
   section |-> [children |-> IF l = 1
                               THEN <<[type |-> "table"], [type |-> "paragraph"], [type |-> "table"]>>
                               ELSE IF l = 2 THEN <<[type |-> "paragraph"]>> ELSE <<>>]]

RECURSIVE SeqsUpTo(_, _)
\* All sequences over S of length 0..n.
SeqsUpTo(S, n) ==
  IF n = 0 THEN {<<>>}
  ELSE LET shorter == SeqsUpTo(S, n - 1)
       IN  shorter \cup {Append(s, x) : s \in {t \in shorter : Len(t) = n - 1}, x \in S}

OutlineSeqs == SeqsUpTo({Entry(l) : l \in 1..MaxLevel}, MaxOutlines)

\* Option names are strings, modelled as sequences of one-letter strings.
Letters  == {"T", "t", "I", "i"}
ProtoKey == <<"_", "_", "p", "r", "o", "t", "o", "_", "_">>
ProtoKeyUpper == <<"_", "_", "P", "R", "O", "T", "O", "_", "_">>
OptionNames ==
  (SeqsUpTo(Letters, MaxNameLen) \ {<<>>}) \cup {ProtoKey, ProtoKeyUpper}
OptionValues == {"A", "B"}
OptionSeqs ==
  SeqsUpTo([name : OptionNames, value : OptionValues], MaxOptions)

\* #+Title: A / #+TITLE: B
SampleOptions ==
  <<[name |-> <<"T", "i", "t", "l", "e">>, value |-> "A"],
    [name |-> <<"T", "I", "T", "L", "E">>, value |-> "B"]>>


---------------------------------------------------------------------------
(* class OutlinesArrayList.  A method is modelled by the value it returns  *)
(* and the receiver's _outlines array when it returns:                     *)
(* [ret |-> ..., _outlines |-> ...].  `o` is the receiver's _outlines.     *)

Returns(r, o) == [ret |-> r, _outlines |-> o]

\* constructor(collection) { this._outlines = collection || []; }
OutlinesArrayList(collection) == collection

\* get length() { return this._outlines.length; }
length(o) == Returns(Number(Len(o)), o)

\* a[n] for an integer n: the element, or undefined outside the array.
ArrayGet(o, n) == IF n >= 0 /\ n < Len(o) THEN Node(o[n + 1]) ELSE Undefined

\* getItem with the index clamped into the array.
getItem_clamped(o, n) ==
  Returns(ArrayGet(o, IF n < 0 THEN 0 ELSE IF n >= Len(o) THEN Len(o) - 1 ELSE n), o)

\* getItem(n) { return this._outlines[n]; }
getItem(o, n) == Returns(ArrayGet(o, n), o)

\* first() { return this.getItem(0); }
first(o) == getItem(o, 0)

\* last written with pop(), which removes the element it returns.
last_pop(o) ==
  Returns(ArrayGet(o, Len(o) - 1), IF o = <<>> THEN o ELSE SubSeq(o, 1, Len(o) - 1))

\* last() { return this.getItem(this.length - 1); }
last(o) == getItem(o, length(o).ret.id - 1)

\* findByLevel comparing with >= instead of ===.
findByLevel_ge(o, level) ==
  Returns(Collection(SelectSeq(o, LAMBDA id : heap[id].level >= level)), o)

\* findByLevel(level): filter (outline) => outline.level === level
findByLevel(o, level) ==
  Returns(Collection(SelectSeq(o, LAMBDA id : heap[id].level = level)), o)

\* findByTags(tags): filter (outline) => outline.tags.some((tag) => tag === tags)
findByTags(o, tags) ==
  Returns(Collection(SelectSeq(o, LAMBDA id :
            \E i \in DOMAIN heap[id].tags : heap[id].tags[i] = tags)), o)

\* findByTitle(title): filter (outline) => outline.title === title
findByTitle(o, title) ==
  Returns(Collection(SelectSeq(o, LAMBDA id : heap[id].title = title)), o)

\* setOutlines(collection) { this._outlines = collection; }
setOutlines(o, collection) == Returns(Undefined, collection)

---------------------------------------------------------------------------
(* class OutlineNode.  _list is options.list, which is always              *)
(* _ast.outlines; _data is the wrapped entry, named by its position.       *)

\* constructor(data, options): copies title, level and tags off the heading.
OutlineNode(data, index) ==
  [_data  |-> data,
   _index |-> index,
   title  |-> _ast.outlines[data + 1].heading.title,
   level  |-> _ast.outlines[data + 1].heading.level,
   tags   |-> _ast.outlines[data + 1].heading.tags]

\* get tables(): the section children whose type is 'table', each named by
\* its entry and its place in the section.
nodeTables(id) ==
  LET d  == heap[id]._data
      ch == _ast.outlines[d + 1].section.children
      ix == SelectSeq([k \in 1..Len(ch) |-> k], LAMBDA k : ch[k].type = "table")
  IN  [j \in 1..Len(ix) |-> [entry |-> d, child |-> ix[j] - 1, type |-> ch[ix[j]].type]]

\* this._list[i]._node: reading _node off undefined throws a TypeError; an
\* entry that was never decorated gives undefined.
ListNode(i) ==
  IF i < 0 \/ i >= Len(_ast.outlines) THEN TypeError
  ELSE IF astNode[i + 1] = 0 THEN Undefined
  ELSE Node(astNode[i + 1])

\* next with the guard written > instead of >=.
next_gt(self) ==
  IF heap[self]._index > Len(_ast.outlines) - 1
    THEN Null
    ELSE ListNode(heap[self]._index + 1)

\* next()
next(self) ==
  IF heap[self]._index >= Len(_ast.outlines) - 1
    THEN Null
    ELSE ListNode(heap[self]._index + 1)

\* prev reading this._list[this._index].
prev_same(self) ==
  IF heap[self]._index < 0
    THEN Null
    ELSE ListNode(heap[self]._index)

\* prev()
prev(self) ==
  IF heap[self]._index < 0
    THEN Null
    ELSE ListNode(heap[self]._index - 1)

RECURSIVE childrenLoop_ge(_, _, _)
\* The loop of children comparing levels with >= instead of >.
childrenLoop_ge(self, curr, children) ==
  IF curr.tag = "TypeError" THEN TypeError
  ELSE IF curr.tag = "node" /\ heap[curr.id].level >= heap[self].level
    THEN childrenLoop_ge(self, next(curr.id), Append(children, curr.id))
    ELSE Collection(OutlinesArrayList(children))

RECURSIVE childrenLoop(_, _, _)
\* while (curr && curr.level > this.level) { children.push(curr); curr = curr.next(); }
\* An exception thrown by next() leaves the getter.
childrenLoop(self, curr, children) ==
  IF curr.tag = "TypeError" THEN TypeError
  ELSE IF curr.tag = "node" /\ heap[curr.id].level > heap[self].level
    THEN childrenLoop(self, next(curr.id), Append(children, curr.id))
    ELSE Collection(OutlinesArrayList(children))

\* get children()
children(self) == childrenLoop(self, next(self), <<>>)

RECURSIVE tablesReduce(_, _)
\* OutlinesArrayList.tables: reduce over _outlines, concatenating each outline's tables.
tablesReduce(o, collection) ==
  IF o = <<>> THEN collection
  ELSE LET t == nodeTables(Head(o))
       IN  tablesReduce(Tail(o), IF Len(t) > 0 THEN collection \o t ELSE collection)

tables(o) == Returns(Elements(tablesReduce(o, <<>>)), o)

---------------------------------------------------------------------------
(* class Orgmode extends OutlinesArrayList.                                *)

\* _buildOutlines numbering the nodes from 1.
BuildOutlines_indexFromOne ==
  LET n == Len(_ast.outlines)
      h == Len(heap)
  IN  [result  |-> [i \in 1..n |-> h + i],
       heap    |-> heap \o [i \in 1..n |-> OutlineNode(i - 1, i)],
       astNode |-> [i \in 1..n |-> h + i]]

\* _buildOutlines with a `_node` getter that wraps the entry again instead of
\* returning the node built for the collection.
BuildOutlines_freshDecoration ==
  LET n == Len(_ast.outlines)
      h == Len(heap)
  IN  [result  |-> [i \in 1..n |-> h + i],
       heap    |-> heap \o [i \in 1..n |-> OutlineNode(i - 1, i - 1)]
                        \o [i \in 1..n |-> OutlineNode(i - 1, i - 1)],
       astNode |-> [i \in 1..n |-> h + n + i]]

\* _buildOutlines(): one OutlineNode per entry of _ast.outlines, in order, each
\* entry decorated with a `_node` getter returning that node.  Gives the
\* array returned, the heap and the decorations afterwards.
BuildOutlines ==
  LET n == Len(_ast.outlines)
      h == Len(heap)
  IN  [result  |-> [i \in 1..n |-> h + i],
       heap    |-> heap \o [i \in 1..n |-> OutlineNode(i - 1, i - 1)],
       astNode |-> [i \in 1..n |-> h + i]]

\* s.toLowerCase(), letter by letter.
LowerChar(c) ==
  CASE c = "T" -> "t" [] c = "I" -> "i" [] c = "L" -> "l" [] c = "E" -> "e"
    [] c = "P" -> "p" [] c = "R" -> "r" [] c = "O" -> "o" [] OTHER -> c

toLowerCase(s) == [i \in 1..Len(s) |-> LowerChar(s[i])]

\* map[key] = value on an object created by {}: an own property is created or
\* overwritten, except that the key "__proto__" reaches the inherited
\* __proto__ setter, which ignores a value that is not an object (here a
\* string) and creates no property.
ObjectSet(map, key, value) ==
  IF key = ProtoKey THEN map
  ELSE [k \in (DOMAIN map) \cup {key} |-> IF k = key THEN value ELSE map[k]]

RECURSIVE overviewReduce(_, _)
\* reduce((map, item) => { map[item.name.toLowerCase()] = item.value; return map; }, {})
overviewReduce(options, map) ==
  IF options = <<>> THEN map
  ELSE overviewReduce(Tail(options),
         ObjectSet(map, toLowerCase(Head(options).name), Head(options).value))

\* get overview()
overview == Object(overviewReduce(_ast.options, EmptyMap))

---------------------------------------------------------------------------
(* The state machine: the constructor, then the calls a client can make on *)
(* the Document, on its nodes and on the collections children() returns.   *)

\* What pcall becomes when another call is made: the call just made, if it
\* was next().
History ==
  IF call.on = "node" /\ call.op = "next"
    THEN [op |-> call.op, self |-> call.self, tag |-> ret.tag, id |-> ret.id]
    ELSE NoCall

InitWith(asts) ==
  /\ _ast \in asts
  /\ astNode = [i \in 1..Len(_ast.outlines) |-> 0]
  /\ heap = <<>>
  /\ _outlines = <<>>
  /\ built = FALSE
  /\ call = Call("none", "doc", 0, 0, "")
  /\ ret = Undefined
  /\ pcall = NoCall

\* Documents that differ in their headings.
Init == InitWith([outlines : OutlineSeqs, options : {SampleOptions}])

\* Shorter documents, for the larger machine with setOutlines.
InitSet ==
  InitWith([outlines : SeqsUpTo({Entry(l) : l \in 1..MaxLevel}, MaxOutlines - 1),
            options : {SampleOptions}])

\* Documents that differ in their options.
InitOverview ==
  InitWith([outlines : {<<Entry(1), Entry(2)>>}, options : OptionSeqs])

\* new Orgmode(pathname): super([]), then this.setOutlines(this._buildOutlines()).
Construct ==
  /\ ~built
  /\ LET b == BuildOutlines
     IN  /\ heap' = b.heap
         /\ astNode' = b.astNode
         /\ _outlines' = setOutlines(OutlinesArrayList(<<>>), b.result)._outlines
  /\ built' = TRUE
  /\ call' = Call("new", "doc", 0, 0, "")
  /\ ret' = Undefined
  /\ pcall' = NoCall
  /\ UNCHANGED _ast

\* A method of OutlinesArrayList called on the Document; r is what it gives.
OnDocument(c, r) ==
  /\ built
  /\ call' = c
  /\ ret' = r.ret
  /\ _outlines' = r._outlines
  /\ pcall' = History
  /\ UNCHANGED <<_ast, astNode, heap, built>>

\* A method of an OutlineNode, or of the collection its children getter
\* returns: nothing the Document holds is assigned.
OnNode(c, r) ==
  /\ built
  /\ call' = c
  /\ ret' = r
  /\ pcall' = History
  /\ UNCHANGED <<_ast, astNode, heap, _outlines, built>>

Length == OnDocument(Call("length", "doc", 0, 0, ""), length(_outlines))

GetItem(n) == OnDocument(Call("getItem", "doc", 0, n, ""), getItem(_outlines, n))

First == OnDocument(Call("first", "doc", 0, 0, ""), first(_outlines))

Last == OnDocument(Call("last", "doc", 0, 0, ""), last(_outlines))

FindByLevel(level) ==
  OnDocument(Call("findByLevel", "doc", 0, level, ""), findByLevel(_outlines, level))

FindByTags(tags) ==
  OnDocument(Call("findByTags", "doc", 0, 0, tags), findByTags(_outlines, tags))

FindByTitle(title) ==
  OnDocument(Call("findByTitle", "doc", 0, 0, title), findByTitle(_outlines, title))

Tables == OnDocument(Call("tables", "doc", 0, 0, ""), tables(_outlines))

Overview ==
  OnDocument(Call("overview", "doc", 0, 0, ""), Returns(overview, _outlines))

SetOutlines(collection) ==
  OnDocument(Call("setOutlines", "doc", 0, Len(collection), ""),
             setOutlines(_outlines, collection))

Next_(self) == OnNode(Call("next", "node", self, 0, ""), next(self))

Prev(self) == OnNode(Call("prev", "node", self, 0, ""), prev(self))

Children(self) == OnNode(Call("children", "node", self, 0, ""), children(self))

\* node.children.findByLevel(level)
ChildrenFindByLevel(self, level) ==
  /\ children(self).tag = "collection"
  /\ OnNode(Call("findByLevel", "children", self, level, ""),
            findByLevel(children(self).list, level).ret)

Nodes == 1..Len(heap)

\* The arrays a caller of setOutlines passes in the model: none of the nodes,
\* the last node alone, all the nodes in reverse order.
Collections ==
  {<<>>, [i \in 1..Len(heap) |-> Len(heap) + 1 - i]}
    \cup {<<k>> : k \in {Len(heap)} \cap Nodes}

Queries ==
  \/ Length
  \/ \E n \in -1..MaxOutlines : GetItem(n)
  \/ First
  \/ Last
  \/ \E level \in 1..MaxLevel : FindByLevel(level)
  \/ \E tags \in {"x", "z"} : FindByTags(tags)
  \/ \E title \in {"A", "C"} : FindByTitle(title)
  \/ Tables
  \/ Overview
  \/ \E self \in Nodes : Next_(self)
  \/ \E self \in Nodes : Prev(self)
  \/ \E self \in Nodes : Children(self)
  \/ \E self \in Nodes, level \in 1..MaxLevel : ChildrenFindByLevel(self, level)

\* A Document used through its queries.
Next == Construct \/ Queries

Spec == Init /\ [][Next]_vars

\* A Document on which setOutlines is called as well.
NextSet == Next \/ \E collection \in Collections : SetOutlines(collection)

SpecSet == InitSet /\ [][NextSet]_vars

\* The overview of Documents that differ in their options.
NextOverview == Construct \/ Overview

SpecOverview == InitOverview /\ [][NextOverview]_vars

---------------------------------------------------------------------------
(* Properties.                                                             *)

position(id) == heap[id]._index

\* The collection the last call was made on.
Receiver ==
  IF call.on = "children" THEN children(call.self).list ELSE _outlines

\* r holds members of coll in their order in coll, none of them twice.
IsSubsequence(r, coll) ==
  \E f \in [1..Len(r) -> 1..Len(coll)] :
    /\ \A j \in 1..Len(r) : r[j] = coll[f[j]]
    /\ \A j, k \in 1..Len(r) : j < k => f[j] < f[k]

\* C1: n.children is exactly the maximal run of nodes right after n whose
\* level is strictly greater than n's: its members are the nodes at positions
\* p+1, p+2, ... in order, each deeper than n, and the node after the last of
\* them, if there is one, is not deeper than n.  A gap in the levels does not
\* end the run.
C1_ChildrenMaximalRun ==
  (call.op = "children") =>
    LET n == call.self
        p == position(n)
        k == Len(ret.list)
    IN  /\ ret.tag = "collection"
        /\ p + k < Len(_outlines)
        /\ \A j \in 1..k :
             /\ ret.list[j] = _outlines[p + j + 1]
             /\ position(ret.list[j]) = p + j
             /\ heap[ret.list[j]].level > heap[n].level
        /\ (p + k + 1 < Len(_outlines)) =>
             heap[_outlines[p + k + 2]].level <= heap[n].level

\* Levels [1, 3, 1]: the first node has the level-3 node as its only child.
C1_Witness ==
  /\ call.op = "children"
  /\ Len(_outlines) = 3
  /\ position(call.self) = 0
  /\ Len(ret.list) = 1
  /\ heap[ret.list[1]].level = heap[call.self].level + 2
  /\ heap[_outlines[3]].level = heap[call.self].level

\* C2: for a node n before the last position, n.next() is the node at
\* n.position + 1, and prev() called on it returns n itself.
C2_NextPrevRoundTrip ==
  [][/\ (call'.op = "next" /\ heap'[call'.self]._index < Len(_outlines') - 1) =>
          /\ ret'.tag = "node"
          /\ heap'[ret'.id]._index = heap'[call'.self]._index + 1
     /\ (call.op = "next" /\ ret.tag = "node" /\ call'.op = "prev" /\ call'.self = ret.id) =>
          ret' = Node(call.self)]_vars

\* prev() was called on the node next() had just returned and gave back the
\* node next() was called on.
C2_Witness ==
  /\ call.op = "prev"
  /\ pcall.op = "next"
  /\ pcall.tag = "node"
  /\ pcall.id = call.self
  /\ ret = Node(pcall.self)
  /\ position(call.self) = position(pcall.self) + 1

\* C3: prev() on the first node (position 0) returns "none" (null): no node,
\* no exception.
C3_FirstPrevIsNone ==
  (call.op = "prev" /\ position(call.self) = 0) => ret = Null

\* C4: the Document's length is the number of heading-entries of the AST,
\* and item(i) is the node with position i that wraps entry i; no entry is
\* skipped or wrapped twice in the collection.
C4_LengthAndPositions ==
  built =>
    /\ length(_outlines).ret = Number(Len(_ast.outlines))
    /\ \A i \in 0..(Len(_ast.outlines) - 1) :
         LET item == getItem(_outlines, i).ret
         IN  /\ item.tag = "node"
             /\ position(item.id) = i
             /\ heap[item.id]._data = i
    /\ (call.op = "length") => ret = Number(Len(_ast.outlines))
    /\ (call.op = "getItem" /\ call.arg >= 0 /\ call.arg < Len(_ast.outlines)) =>
         /\ ret.tag = "node"
         /\ position(ret.id) = call.arg
         /\ heap[ret.id]._data = call.arg

\* item(2) of a three-heading document was asked for.
C4_Witness ==
  /\ call.op = "getItem"
  /\ call.arg = 2
  /\ Len(_ast.outlines) = 3
  /\ ret.tag = "node"
  /\ position(ret.id) = 2

\* C5: next() on the last node returns "none" (null), however often it is
\* called in a row, throws nothing and changes neither the node sequence
\* nor any node.
C5_NextOnLastIsNone ==
  [][(call'.op = "next" /\ heap'[call'.self]._index = Len(_outlines') - 1) =>
       /\ ret' = Null
       /\ UNCHANGED <<_outlines, heap, _ast, astNode>>]_vars

\* next() was called on the last node twice in a row.
C5_Witness ==
  /\ call.op = "next"
  /\ position(call.self) = Len(_outlines) - 1
  /\ ret = Null
  /\ pcall = [op |-> "next", self |-> call.self, tag |-> "null", id |-> 0]

\* C6: findByLevel(L), on the Document or on a collection of children,
\* returns exactly the members whose level is L, each once, in their order
\* in the collection; with no such member the result is empty, not an error.
C6_FindByLevelExact ==
  (call.op = "findByLevel") =>
    /\ ret.tag = "collection"
    /\ \A j \in 1..Len(ret.list) : heap[ret.list[j]].level = call.arg
    /\ IsSubsequence(ret.list, Receiver)
    /\ Len(ret.list) =
         Cardinality({i \in 1..Len(Receiver) : heap[Receiver[i]].level = call.arg})
    /\ (\A i \in 1..Len(Receiver) : heap[Receiver[i]].level # call.arg) => ret.list = <<>>

\* Levels [L, M, L] with M # L: findByLevel(L) gives the first and the third node.
C6_Witness ==
  /\ call.op = "findByLevel"
  /\ call.on = "doc"
  /\ Len(_outlines) = 3
  /\ heap[_outlines[2]].level # call.arg
  /\ ret.list = <<_outlines[1], _outlines[3]>>

\* The last option whose lower-cased name is key.
LastOption(key) ==
  LET hits == {i \in 1..Len(_ast.options) : toLowerCase(_ast.options[i].name) = key}
  IN  _ast.options[CHOOSE i \in hits : \A j \in hits : j <= i]

\* C7: overview has exactly one entry per distinct lower-cased option name
\* and maps it to the value of the last option with that name, whatever its
\* case.
C7_OverviewLastWriteWins ==
  (call.op = "overview") =>
    /\ ret.tag = "object"
    /\ DOMAIN ret.map =
         {toLowerCase(_ast.options[i].name) : i \in 1..Len(_ast.options)}
    /\ \A key \in DOMAIN ret.map : ret.map[key] = LastOption(key).value

\* C8 as claimed: item(n) is the node at index n when 0 <= n < length and
\* fails with IndexOutOfRange for every other n.
C8_ItemOutOfRangeFails ==
  (call.op = "getItem" /\ call.on = "doc") =>
    IF call.arg >= 0 /\ call.arg < Len(_outlines)
      THEN ret = Node(_outlines[call.arg + 1])
      ELSE ret.tag = "IndexOutOfRange"

\* C8 as amended: item(n) is the node at index n when 0 <= n < length; for
\* every other integer n it returns undefined ("none"): no error, no node,
\* no clamping.
C8_ItemOutOfRangeUndefined ==
  (call.op = "getItem" /\ call.on = "doc") =>
    IF call.arg >= 0 /\ call.arg < Len(_outlines)
      THEN ret = Node(_outlines[call.arg + 1])
      ELSE ret = Undefined

\* item(-1) and item(length) of a non-empty document.
C8_Witness ==
  /\ call.op = "getItem"
  /\ Len(_outlines) >= 1
  /\ call.arg \in {-1, Len(_outlines)}
  /\ ret = Undefined

\* C9 as claimed: once the Document is built, no call changes its node
\* sequence or any node.
C9_ModelImmutable ==
  [][built => (_outlines' = _outlines /\ heap' = heap)]_vars

\* C9 as amended: once the Document is built, no call changes any node
\* (position, title, level, tags) or the AST, and every call other than
\* setOutlines leaves the node sequence as it was, so a query repeated
\* gives the same result.
C9_QueriesAreReads ==
  [][built =>
       /\ heap' = heap
       /\ _ast' = _ast
       /\ astNode' = astNode
       /\ (call'.op # "setOutlines") =>
            /\ _outlines' = _outlines
            /\ (call' = call) => (ret' = ret)]_vars

\* After setOutlines reversed the sequence, last() returned the node built
\* first and the sequence is still the reversed one.
C9_Witness ==
  /\ call.op = "last"
  /\ Len(heap) >= 2
  /\ _outlines = [i \in 1..Len(heap) |-> Len(heap) + 1 - i]
  /\ ret = Node(1)

\* C10: navigation returns the nodes of the collection: item(i).next() is
\* item(i + 1), every member of item(i).children is the item at its position,
\* and each heading-entry has exactly one wrapper, whatever calls were made.
C10_CanonicalWrapper ==
  built =>
    /\ \A e \in 0..(Len(_ast.outlines) - 1) :
         Cardinality({id \in 1..Len(heap) : heap[id]._data = e}) = 1
    /\ \A i \in 0..(Len(_outlines) - 2) :
         next(getItem(_outlines, i).ret.id) = getItem(_outlines, i + 1).ret
    /\ \A i \in 0..(Len(_outlines) - 1) :
         LET ch == children(getItem(_outlines, i).ret.id)
         IN  /\ ch.tag = "collection"
             /\ \A j \in 1..Len(ch.list) :
                  Node(ch.list[j]) = getItem(_outlines, position(ch.list[j])).ret
    /\ (call.op = "next" /\ ret.tag = "node") =>
         ret = getItem(_outlines, position(call.self) + 1).ret
    /\ (call.op = "children") =>
         \A j \in 1..Len(ret.list) :
           Node(ret.list[j]) = getItem(_outlines, position(ret.list[j])).ret

\* A second next() in a row returned the item at the following position.
C10_Witness ==
  /\ call.op = "next"
  /\ pcall.op = "next"
  /\ pcall.id = call.self
  /\ ret.tag = "node"
  /\ ret = getItem(_outlines, 2).ret

=============================================================================
